---- MODULE Spec2Model ----
(***************************************************************************)
(* Model of the chat relay service in src/main.py: the in-memory history   *)
(* store `conversations` and the four request handlers start_conversation, *)
(* send_message, get_conversation and upload_file.                         *)
(*                                                                         *)
(* The handlers are coroutines on one event loop: a handler runs without   *)
(* interruption until it awaits.  The only awaits are the two file.read()  *)
(* calls (lines 62 and 96); llm.chat (line 72) is a synchronous call.      *)
(* send_message is therefore two steps when a file is attached (up to the  *)
(* await, and from the await to the end) and one step otherwise.           *)
(*                                                                         *)
(* Optional values (Optional[str], Optional[UploadFile]) are sequences of  *)
(* length at most one: <<>> is None, <<v>> is the value v.                 *)
(***************************************************************************)
EXTENDS Integers, Sequences, FiniteSets, TLC

(* ------------------------------ bounds --------------------------------- *)

\* Number of send_message calls on existing conversations that a run admits
\* (the service itself admits any number).
MaxSends == 2

(* ------------------------------ inputs --------------------------------- *)

\* Values uuid.uuid4() can return, and ids a caller can put in a request.
ConvIds == {"id-a", "id-b"}

\* Values of the `message` form field.
Messages == {"hi", "yo"}

\* Values of the `model_name` form field: absent, empty, a model name.
ModelNames == {<<>>, <<"">>, <<"gpt">>}

\* Texts llm.chat can return.
Replies == {"hello"}

\* Uploaded files: a caller-supplied filename and the bytes read() returns.
\* a.txt is "h" followed by U+00E9 in UTF-8; b.bin ends in the middle of a
\* two-byte sequence.
Files ==
  { [filename |-> "a.txt", bytes |-> <<104, 195, 169>>],
    [filename |-> "b.bin", bytes |-> <<104, 195>>] }

\* Frames of send_message calls suspended at line 62: two calls can be
\* suspended at the same time.
Reqs == {1, 2}

VARIABLES
  conversations,  \* the store: conversation id -> sequence of messages
  pending,        \* request slot -> <<>> or <<frame of a send_message at line 62>>
  response,       \* what the last handler step gave back to its caller
  chat,           \* the llm.chat call made by the last handler step, if any:
                  \* <<>> or <<[prompt, model, model_name of the request]>>
  tally           \* per id: send_message responses by outcome

vars == <<conversations, pending, response, chat, tally>>

(* --------------------------- pure functions ---------------------------- *)

\* Message dicts built at lines 50 and 77.
UserMessageCapitalized(message) == [role |-> "User", content |-> message]

UserMessage(message) == [role |-> "user", content |-> message]

AssistantMessageCapitalized(response_text) ==
  [role |-> "Assistant", content |-> response_text]

AssistantMessage(response_text) == [role |-> "assistant", content |-> response_text]

\* str.capitalize() on the roles the store holds.
Capitalize(role) ==
  CASE role = "user" -> "User"
    [] role = "assistant" -> "Assistant"
    [] OTHER -> role

\* Lines 53-57: one line f"{role.capitalize()}: {content}\n" per stored
\* message, oldest first.  The context is kept as the sequence of its lines.
ContextLine(msg) == Capitalize(msg.role) \o ": " \o msg.content \o "\n"

RenderContextNewestFirst(history) ==
  [i \in 1..Len(history) |-> ContextLine(history[Len(history) + 1 - i])]

RECURSIVE RenderAll(_)
RenderAll(ids) ==
  IF ids = {} THEN <<>>
  ELSE LET id == CHOOSE x \in ids : TRUE
       IN [i \in 1..Len(conversations[id]) |-> ContextLine(conversations[id][i])]
            \o RenderAll(ids \ {id})

RenderContextWholeStore(history) ==
  RenderAll(DOMAIN conversations) \o <<ContextLine(history[Len(history)])>>

RenderContext(history) == [i \in 1..Len(history) |-> ContextLine(history[i])]

\* bytes.decode('utf-8'), strict: the code points of the text, or a failure.
IsCont(b) == b >= 128 /\ b <= 191

Utf8DecodeLenient(bytes) == [ok |-> TRUE, text |-> bytes]

RECURSIVE Utf8Decode(_)
Utf8Decode(bytes) ==
  IF bytes = <<>> THEN [ok |-> TRUE, text |-> <<>>]
  ELSE
    LET b0 == bytes[1]
        n  == Len(bytes)
        one   == b0 <= 127
        two   == b0 >= 194 /\ b0 <= 223 /\ n >= 2 /\ IsCont(bytes[2])
        three == /\ b0 >= 224 /\ b0 <= 239 /\ n >= 3
                 /\ IsCont(bytes[2]) /\ IsCont(bytes[3])
                 /\ (b0 = 224 => bytes[2] >= 160)
                 /\ (b0 = 237 => bytes[2] <= 159)
        four  == /\ b0 >= 240 /\ b0 <= 244 /\ n >= 4
                 /\ IsCont(bytes[2]) /\ IsCont(bytes[3]) /\ IsCont(bytes[4])
                 /\ (b0 = 240 => bytes[2] >= 144)
                 /\ (b0 = 244 => bytes[2] <= 143)
        used  == IF one THEN 1 ELSE IF two THEN 2 ELSE IF three THEN 3 ELSE 4
        cp    == IF one THEN b0
                 ELSE IF two THEN (b0 - 192) * 64 + (bytes[2] - 128)
                 ELSE IF three
                   THEN (b0 - 224) * 4096 + (bytes[2] - 128) * 64 + (bytes[3] - 128)
                 ELSE (b0 - 240) * 262144 + (bytes[2] - 128) * 4096
                        + (bytes[3] - 128) * 64 + (bytes[4] - 128)
    IN IF ~(one \/ two \/ three \/ four) THEN [ok |-> FALSE, text |-> <<>>]
       ELSE LET rest == Utf8Decode(SubSeq(bytes, used + 1, n))
            IN IF rest.ok THEN [ok |-> TRUE, text |-> <<cp>> \o rest.text]
               ELSE [ok |-> FALSE, text |-> <<>>]

\* Line 63: the block appended to the context for a decoded file.
FileBlock(text) == <<"File Content:\n", text, "\n">>

\* Line 68: model_name if model_name else "default".
SelectedModelIgnoringName(model_name) == "default"

SelectedModel(model_name) ==
  IF model_name # <<>> /\ model_name[1] # "" THEN model_name[1] ELSE "default"

\* uuid.uuid4(): the values a call can return, given the ids handed out so far.
uuid4Colliding(used) == ConvIds

uuid4(used) == ConvIds \ used

(* ------------------------------- store --------------------------------- *)

\* conversations[conv_id] = []  (line 33)
Register(store, conv_id) ==
  [x \in DOMAIN store \cup {conv_id} |-> IF x = conv_id THEN <<>> ELSE store[x]]

\* conversations[conversation_id].append(msg)  (lines 50 and 77)
AppendToAll(store, conversation_id, msg) ==
  [x \in DOMAIN store |-> Append(store[x], msg)]

AppendTo(store, conversation_id, msg) ==
  [store EXCEPT ![conversation_id] = Append(@, msg)]

DropLast(store, conversation_id) ==
  [store EXCEPT ![conversation_id] = SubSeq(@, 1, Len(@) - 1)]

\* Lines 46-50: the store after the existence check and the user append, and
\* whether the handler goes on.
SendHeadAutoCreate(store, conversation_id, message) ==
  [ found |-> TRUE,
    store |-> IF conversation_id \in DOMAIN store
                THEN AppendTo(store, conversation_id, UserMessage(message))
                ELSE AppendTo(Register(store, conversation_id), conversation_id,
                              UserMessage(message)) ]

SendHeadSkipAppend(store, conversation_id, message) ==
  [found |-> conversation_id \in DOMAIN store, store |-> store]

SendHead(store, conversation_id, message) ==
  IF conversation_id \notin DOMAIN store
    THEN [found |-> FALSE, store |-> store]
    ELSE [found |-> TRUE,
          store |-> AppendTo(store, conversation_id, UserMessage(message))]

\* Lines 64-65: the store when the file cannot be read or decoded.
FileErrorStoreRollback(store, conversation_id) == DropLast(store, conversation_id)

FileErrorStore(store, conversation_id) == store

\* Lines 73-74: the store when llm.chat raises.
InferenceErrorStoreRollback(store, conversation_id) == DropLast(store, conversation_id)

InferenceErrorStore(store, conversation_id) == store

\* Line 77: the store after the assistant append.
ReplyStoreDropped(store, conversation_id, response_text) == store

ReplyStoreCapitalized(store, conversation_id, response_text) ==
  AppendTo(store, conversation_id, AssistantMessageCapitalized(response_text))

ReplyStore(store, conversation_id, response_text) ==
  AppendTo(store, conversation_id, AssistantMessage(response_text))

\* Line 88: the body of a get_conversation response.
GetBodyLatest(store, conversation_id) ==
  LET h == store[conversation_id] IN IF h = <<>> THEN h ELSE <<h[Len(h)]>>

GetBody(store, conversation_id) == store[conversation_id]

(* -------------------------- responses, tally --------------------------- *)

NoCall == <<>>

\* What a handler step gives back: the operation, the conversation id and the
\* message of the request, the HTTP status (0: suspended at an await, no
\* response yet), the response body, and for send_message the index at which
\* line 50 stored the user message (0 when it did not).
Response(op, id, message, status, body, pos) ==
  [op |-> op, id |-> id, message |-> message, status |-> status, body |-> body,
   pos |-> pos]

\* send_message responses counted by outcome: 200, or an error raised after
\* the user append (400 at lines 64-65, 500 at lines 73-74).
Tally(t, id, status) ==
  IF status = 200 THEN [t EXCEPT ![id].ok = @ + 1]
  ELSE IF status \in {400, 500} THEN [t EXCEPT ![id].failed = @ + 1]
  ELSE t

Idle(r) == pending[r] = <<>>

InFlight(id) == {r \in Reqs : ~Idle(r) /\ pending[r][1].conversation_id = id}

\* send_message calls admitted so far: those answered after the user append
\* and those suspended at line 62.
RECURSIVE Answered(_)
Answered(ids) ==
  IF ids = {} THEN 0
  ELSE LET id == CHOOSE x \in ids : TRUE
       IN tally[id].ok + tally[id].failed + Answered(ids \ {id})

Admitted == Answered(ConvIds) + Cardinality({r \in Reqs : ~Idle(r)})

(* ------------------------------ actions -------------------------------- *)

Init ==
  /\ conversations = << >>
  /\ pending = [r \in Reqs |-> <<>>]
  /\ response = Response("none", "", "", 0, "", 0)
  /\ chat = NoCall
  /\ tally = [id \in ConvIds |-> [ok |-> 0, failed |-> 0]]

\* Lines 26-34.
start_conversation ==
  \E conv_id \in uuid4(DOMAIN conversations) :
    /\ conversations' = Register(conversations, conv_id)
    /\ response' = Response("start_conversation", conv_id, "", 200, conv_id, 0)
    /\ chat' = NoCall
    /\ UNCHANGED <<pending, tally>>

\* The context string of lines 53-65: the rendered lines, then the file block
\* when a file was decoded (<<>>: no block, <<text>>: the block of FileBlock).
Context(lines, file_text) == [lines |-> lines, file |-> file_text]

\* Lines 67-79 on the store `store`: llm.chat is called with the context and
\* the selected model, and returns a text or raises.  The call is recorded
\* with the model_name form field it was selected from.
Finish(store, id, message, model_name, context, pos) ==
  /\ chat' = <<[prompt |-> context, model |-> SelectedModel(model_name),
                model_name |-> model_name]>>
  /\ \/ \E response_text \in Replies :
          /\ conversations' = ReplyStore(store, id, response_text)
          /\ response' =
               Response("send_message", id, message, 200, response_text, pos)
          /\ tally' = Tally(tally, id, 200)
     \/ /\ conversations' = InferenceErrorStore(store, id)
        /\ response' =
             Response("send_message", id, message, 500, "LLM generation error", pos)
        /\ tally' = Tally(tally, id, 500)

\* Lines 36-62 and, without a file, on to line 79.
send_message_always_awaits ==
  \E id \in ConvIds, message \in Messages, model_name \in ModelNames,
     file \in {<<[filename |-> "", bytes |-> <<>>]>>} \cup {<<f>> : f \in Files} :
    LET head == SendHead(conversations, id, message) IN
    IF ~head.found
      THEN /\ conversations' = head.store
           /\ response' =
                Response("send_message", id, message, 404, "Conversation not found", 0)
           /\ chat' = NoCall
           /\ UNCHANGED <<pending, tally>>
      ELSE /\ Admitted < MaxSends
           /\ \E r \in Reqs :
                /\ Idle(r)
                /\ pending' =
                     [pending EXCEPT ![r] =
                       <<[conversation_id |-> id, message |-> message,
                          model_name |-> model_name, file |-> file[1],
                          context |-> Context(RenderContext(head.store[id]), <<>>),
                          pos |-> Len(head.store[id])]>>]
                /\ conversations' = head.store
                /\ response' =
                     Response("send_message", id, message, 0, "", Len(head.store[id]))
                /\ chat' = NoCall
                /\ UNCHANGED tally

send_message ==
  \E id \in ConvIds, message \in Messages, model_name \in ModelNames,
     file \in {<<>>} \cup {<<f>> : f \in Files} :
    LET head == SendHead(conversations, id, message) IN
    IF ~head.found
      THEN /\ conversations' = head.store
           /\ response' =
                Response("send_message", id, message, 404, "Conversation not found", 0)
           /\ chat' = NoCall
           /\ UNCHANGED <<pending, tally>>
      ELSE LET history == head.store[id]
               context == Context(RenderContext(history), <<>>)
               pos     == Len(history)
           IN /\ Admitted < MaxSends
              /\ IF file = <<>>
                   THEN /\ Finish(head.store, id, message, model_name, context, pos)
                        /\ UNCHANGED pending
                   ELSE \E r \in Reqs :
                          /\ Idle(r)
                          /\ \A q \in Reqs : Idle(q) => r <= q
                          /\ pending' =
                               [pending EXCEPT ![r] =
                                 <<[conversation_id |-> id, message |-> message,
                                    model_name |-> model_name, file |-> file[1],
                                    context |-> context, pos |-> pos]>>]
                          /\ conversations' = head.store
                          /\ response' = Response("send_message", id, message, 0, "", pos)
                          /\ chat' = NoCall
                          /\ UNCHANGED tally

\* Lines 62-79: file.read() of a suspended send_message completes.
send_message_resume_in_order ==
  \E r \in Reqs :
    /\ ~Idle(r)
    /\ \A q \in InFlight(pending[r][1].conversation_id) :
         pending[r][1].pos <= pending[q][1].pos
    /\ pending' = [pending EXCEPT ![r] = <<>>]
    /\ LET f == pending[r][1]
       IN IF ~Utf8Decode(f.file.bytes).ok
            THEN /\ conversations' = FileErrorStore(conversations, f.conversation_id)
                 /\ response' =
                      Response("send_message", f.conversation_id, f.message, 400,
                               "Error reading uploaded file", f.pos)
                 /\ chat' = NoCall
                 /\ tally' = Tally(tally, f.conversation_id, 400)
            ELSE Finish(conversations, f.conversation_id, f.message, f.model_name,
                        Context(f.context.lines,
                                <<FileBlock(Utf8Decode(f.file.bytes).text)>>), f.pos)

send_message_resume_rerender ==
  \E r \in Reqs :
    /\ ~Idle(r)
    /\ pending' = [pending EXCEPT ![r] = <<>>]
    /\ LET f == pending[r][1]
       IN IF ~Utf8Decode(f.file.bytes).ok
            THEN /\ conversations' = FileErrorStore(conversations, f.conversation_id)
                 /\ response' =
                      Response("send_message", f.conversation_id, f.message, 400,
                               "Error reading uploaded file", f.pos)
                 /\ chat' = NoCall
                 /\ tally' = Tally(tally, f.conversation_id, 400)
            ELSE Finish(conversations, f.conversation_id, f.message, f.model_name,
                        Context(RenderContext(conversations[f.conversation_id]),
                                <<FileBlock(Utf8Decode(f.file.bytes).text)>>), f.pos)

send_message_resume ==
  \E r \in Reqs :
    /\ ~Idle(r)
    /\ pending' = [pending EXCEPT ![r] = <<>>]
    /\ LET f       == pending[r][1]
           decoded == Utf8Decode(f.file.bytes)
           failed  ==
             /\ conversations' = FileErrorStore(conversations, f.conversation_id)
             /\ response' =
                  Response("send_message", f.conversation_id, f.message, 400,
                           "Error reading uploaded file", f.pos)
             /\ chat' = NoCall
             /\ tally' = Tally(tally, f.conversation_id, 400)
       IN \/ failed                               \* read() raises
          \/ IF ~decoded.ok
               THEN failed                        \* decode('utf-8') raises
               ELSE Finish(conversations, f.conversation_id, f.message, f.model_name,
                           Context(f.context.lines, <<FileBlock(decoded.text)>>), f.pos)

\* Lines 81-88.
get_conversation ==
  \E id \in ConvIds :
    /\ response' =
         IF id \notin DOMAIN conversations
           THEN Response("get_conversation", id, "", 404, "Conversation not found", 0)
           ELSE Response("get_conversation", id, "", 200, GetBody(conversations, id), 0)
    /\ chat' = NoCall
    /\ UNCHANGED <<conversations, pending, tally>>

\* Lines 90-100.
upload_file_storing ==
  \E file \in Files, id \in DOMAIN conversations :
    /\ conversations' = AppendTo(conversations, id, UserMessage(file.filename))
    /\ response' =
         Response("upload_file", "", "", 200,
                  [filename |-> file.filename, size |-> Len(file.bytes)], 0)
    /\ chat' = NoCall
    /\ UNCHANGED <<pending, tally>>

upload_file ==
  \E file \in Files :
    /\ \/ response' =
            Response("upload_file", "", "", 200,
                     [filename |-> file.filename, size |-> Len(file.bytes)], 0)
       \/ response' = Response("upload_file", "", "", 400, "Error reading file", 0)
    /\ chat' = NoCall
    /\ UNCHANGED <<conversations, pending, tally>>

Next ==
  \/ start_conversation
  \/ send_message
  \/ send_message_resume
  \/ get_conversation
  \/ upload_file

Spec == Init /\ [][Next]_vars

(* ------------------------------ helpers -------------------------------- *)

IsPrefix(s, t) == Len(s) <= Len(t) /\ SubSeq(t, 1, Len(s)) = s

\* The step just taken is a send_message step that ended with `status`.
SendEnded(status) == response'.op = "send_message" /\ response'.status = status

\* The send_message step just taken ran lines 46-50 itself (it is not the
\* resumption of a suspended call): its user message lies beyond the old end.
AppendedUserNow ==
  response'.id \in DOMAIN conversations
    => response'.pos > Len(conversations[response'.id])

StoreUntouched ==
  /\ conversations' = conversations
  /\ pending' = pending
  /\ tally' = tally

(* ------------------------------- claims -------------------------------- *)

\* C1: whenever no send_message call on a conversation is in flight, the
\* length of its history is 2 x (calls answered 200) + 1 x (calls answered
\* 400 or 500, which fail after the user append).
C1_HistoryLength ==
  \A id \in DOMAIN conversations :
    InFlight(id) = {}
      => Len(conversations[id]) = 2 * tally[id].ok + tally[id].failed

\* C1 witness: a quiescent conversation with a succeeded call and a call that
\* failed at file decoding.
C1_Witness ==
  /\ response.op = "send_message" /\ response.status = 400
  /\ InFlight(response.id) = {}
  /\ tally[response.id].ok >= 1 /\ tally[response.id].failed >= 1

\* C2: a send_message on an id that is not in the store answers 404 and
\* changes neither the store nor the suspended calls, and calls no model; 404
\* is answered in no other case.
C2_SendUnknown ==
  [][ response'.op = "send_message"
        => /\ response'.id \notin DOMAIN conversations
             => /\ response'.status = 404
                /\ StoreUntouched
                /\ chat' = NoCall
           /\ response'.status = 404 => response'.id \notin DOMAIN conversations
    ]_vars

\* C2 witness: a 404 answered while the store holds a non-empty history.
C2_Witness ==
  /\ response.op = "send_message" /\ response.status = 404
  /\ \E id \in DOMAIN conversations : conversations[id] # <<>>

\* C3: a send_message that ends with 500 has called the model, its user
\* message is in the history at the index where line 50 put it, and the step
\* that ends with 500 appends nothing but (when it ran line 50 itself) that
\* user message, which is then the last message.
C3_InferenceError ==
  [][ SendEnded(500)
        => LET id == response'.id
               um == UserMessage(response'.message)
           IN /\ chat' # NoCall
              /\ id \in DOMAIN conversations
              /\ conversations' =
                   IF AppendedUserNow THEN AppendTo(conversations, id, um)
                   ELSE conversations
              /\ response'.pos \in 1..Len(conversations'[id])
              /\ conversations'[id][response'.pos] = um
    ]_vars

\* C3 witness: a 500 that leaves an answered turn followed by the unanswered
\* user turn of the failed call.
C3_Witness ==
  /\ response.op = "send_message" /\ response.status = 500
  /\ LET h == conversations[response.id]
     IN /\ Len(h) = 3 /\ response.pos = 3
        /\ h[2].role = "assistant"
        /\ h[3] = UserMessage(response.message)

\* C4: a send_message that ends with 200 returns the text R it appends as
\* {assistant, R}; the user message {user, M} is appended by the step that runs
\* line 50 (at the end of the history, at index pos); when nothing was appended
\* in between, the history is the previous one followed by {user, M},
\* {assistant, R}, and a get_conversation taken next returns exactly that.
C4_SendSuccess ==
  [][ /\ response'.op = "send_message" /\ response'.status \in {0, 200}
           /\ AppendedUserNow
        => LET id  == response'.id
               old == conversations[id]
               um  == UserMessage(response'.message)
           IN /\ response'.pos = Len(old) + 1
              /\ conversations'[id] =
                   IF response'.status = 0 THEN Append(old, um)
                   ELSE old \o <<um, AssistantMessage(response'.body)>>
      /\ SendEnded(200)
        => LET id == response'.id
               h  == conversations'[id]
           IN /\ chat' # NoCall
              /\ response'.body \in Replies
              /\ h[Len(h)] = AssistantMessage(response'.body)
              /\ h[response'.pos] = UserMessage(response'.message)
              /\ SubSeq(h, 1, Len(h) - 1) =
                   IF AppendedUserNow THEN Append(conversations[id], h[response'.pos])
                   ELSE conversations[id]
              /\ \A x \in DOMAIN conversations' \ {id} :
                   conversations'[x] = conversations[x]
      /\ /\ response.op = "send_message" /\ response.status = 200
         /\ response'.op = "get_conversation" /\ response'.id = response.id
        => LET h == conversations[response.id]
           IN /\ response'.status = 200
              /\ response'.body = h
              /\ Len(h) = response.pos + 1
                   => SubSeq(h, Len(h) - 1, Len(h)) =
                        << UserMessage(response.message),
                           AssistantMessage(response.body) >>
    ]_vars

\* C4 witness: get_conversation on a conversation whose only call succeeded
\* returns [{user, "hi"}, {assistant, "hello"}].
C4_Witness ==
  /\ response.op = "get_conversation" /\ response.status = 200
  /\ response.body = <<UserMessage("hi"), AssistantMessage("hello")>>
  /\ tally[response.id] = [ok |-> 1, failed |-> 0]

\* C5: get_conversation answers 404 for an id that is not in the store and
\* 200 with the whole history, in stored order, for an id that is; it changes
\* neither the store nor the suspended calls and calls no model.
C5_GetConversation ==
  [][ response'.op = "get_conversation"
        => /\ response'.status =
                IF response'.id \in DOMAIN conversations THEN 200 ELSE 404
           /\ response'.status = 200 => response'.body = conversations[response'.id]
           /\ StoreUntouched
           /\ chat' = NoCall
    ]_vars

\* C5 witness: a get_conversation that returned a history of several
\* messages while the other id was still unknown.
C5_Witness ==
  /\ response.op = "get_conversation" /\ response.status = 200
  /\ Len(response.body) >= 3
  /\ DOMAIN conversations # ConvIds

\* C6: no step removes an id from the store, and a step that adds an id is a
\* start_conversation step that returns this id.
C6_Lifecycle ==
  [][ /\ DOMAIN conversations \subseteq DOMAIN conversations'
      /\ \A id \in DOMAIN conversations' \ DOMAIN conversations :
           /\ response'.op = "start_conversation"
           /\ response'.status = 200
           /\ response'.body = id
    ]_vars

\* C6 witness: both ids are active after a send_message that failed with a
\* call still suspended.
C6_Witness ==
  /\ DOMAIN conversations = ConvIds
  /\ response.op = "send_message" /\ response.status \in {400, 500}
  /\ \E r \in Reqs : ~Idle(r)

\* C7: every step leaves each stored history a prefix of the history the id
\* has after the step.
C7_AppendOnly ==
  [][ \A id \in DOMAIN conversations :
        /\ id \in DOMAIN conversations'
        /\ IsPrefix(conversations[id], conversations'[id])
    ]_vars

\* C7 witness: a send_message failed after another call had appended behind
\* its user message, and the history still holds both.
C7_Witness ==
  /\ response.op = "send_message" /\ response.status \in {400, 500}
  /\ LET h == conversations[response.id]
     IN /\ response.pos < Len(h)
        /\ h[response.pos] = UserMessage(response.message)

\* C8: a suspended send_message whose file is b.bin (bytes 0x68 0xC3, not valid
\* UTF-8) ends with 400; a send_message that ends with 400 calls no model and leaves the store as it
\* is, with the user message of the call at the index where line 50 put it.
C8_FileError ==
  [][ /\ \A r \in Reqs :
           /\ ~Idle(r) /\ pending'[r] = <<>>
           /\ pending[r][1].file.bytes = <<104, 195>>
           => /\ SendEnded(400)
              /\ response'.id = pending[r][1].conversation_id
              /\ response'.message = pending[r][1].message
      /\ SendEnded(400)
        => LET id == response'.id
           IN /\ chat' = NoCall
              /\ conversations' = conversations
              /\ \E r \in Reqs : ~Idle(r) /\ pending'[r] = <<>>
              /\ id \in DOMAIN conversations
              /\ response'.pos \in 1..Len(conversations'[id])
              /\ conversations'[id][response'.pos] = UserMessage(response'.message)
    ]_vars

\* C8 witness: a 400 that leaves the user message of the call as the last
\* message of a history that has an answered turn before it.
C8_Witness ==
  /\ response.op = "send_message" /\ response.status = 400
  /\ LET h == conversations[response.id]
     IN /\ Len(h) = 3 /\ response.pos = 3
        /\ h[2].role = "assistant"
        /\ h[3] = UserMessage(response.message)

\* C9: start_conversation answers 200 with an id that was not in the store,
\* the id is registered with an empty history, and every history already
\* stored is unchanged.
C9_StartConversation ==
  [][ response'.op = "start_conversation"
        => /\ response'.status = 200
           /\ response'.body \notin DOMAIN conversations
           /\ DOMAIN conversations' = DOMAIN conversations \cup {response'.body}
           /\ conversations'[response'.body] = <<>>
           /\ \A id \in DOMAIN conversations : conversations'[id] = conversations[id]
           /\ pending' = pending /\ tally' = tally /\ chat' = NoCall
    ]_vars

\* C9 witness: a second conversation is started while the first has a
\* non-empty history.
C9_Witness ==
  /\ response.op = "start_conversation"
  /\ conversations[response.body] = <<>>
  /\ \E id \in DOMAIN conversations : conversations[id] # <<>>

\* C10: upload_file, answering 200 or 400, leaves the ids, every history and
\* the suspended calls as they are and calls no model.
C10_UploadFrame ==
  [][ response'.op = "upload_file"
        => /\ response'.status \in {200, 400}
           /\ StoreUntouched
           /\ chat' = NoCall
    ]_vars

\* C10 witness: an upload_file answered while the store holds a non-empty
\* history and a send_message is suspended.
C10_Witness ==
  /\ response.op = "upload_file" /\ response.status = 200
  /\ response.body.size = 3
  /\ \E id \in DOMAIN conversations : conversations[id] # <<>>
  /\ \E r \in Reqs : ~Idle(r)

(* ------------------------- claims C11 to C19 --------------------------- *)

\* The line of the prompt that stands for a stored message, written out.
PromptLine(msg) ==
  (IF msg.role = "user" THEN "User" ELSE "Assistant") \o ": " \o msg.content \o "\n"

\* The step just taken called llm.chat from a send_message.
ChatStep == response'.op = "send_message" /\ chat' # NoCall

\* The message lines of the prompt just passed to the model are the first
\* `pos` messages of the conversation, in stored order, one line each, `pos`
\* being the index of the user message of the call.
PromptRendersHistory ==
  LET id    == response'.id
      lines == chat'[1].prompt.lines
  IN /\ Len(lines) = response'.pos
     /\ response'.pos \in 1..Len(conversations'[id])
     /\ \A i \in 1..Len(lines) : lines[i] = PromptLine(conversations'[id][i])
     /\ lines[Len(lines)] = "User: " \o response'.message \o "\n"

C12_EitherOrder ==
  \A r \in Reqs :
    ~Idle(r) /\ Utf8Decode(pending[r][1].file.bytes).ok
      => ENABLED ( /\ send_message_resume
                   /\ response'.status = 200
                   /\ response'.id = pending[r][1].conversation_id
                   /\ response'.pos = pending[r][1].pos
                   /\ conversations'[response'.id] =
                        Append(conversations[response'.id],
                               AssistantMessage(response'.body)) )

\* C12 witness: u1, u2, a2, a1: the call that stored its user message first
\* appended its reply last.
C12_Witness ==
  /\ response.op = "send_message" /\ response.status = 200 /\ response.pos = 1
  /\ conversations[response.id] =
       << UserMessage(response.message), UserMessage("yo"),
          AssistantMessage("hello"), AssistantMessage("hello") >>
  /\ response.message = "hi"

\* The prompt lines `lines` hold the user message of the suspended call `f`
\* at the index where that message is stored.
HoldsTurnOf(lines, f) ==
  f.pos <= Len(lines) /\ lines[f.pos] = "User: " \o f.message \o "\n"

\* C13: when a call A passes its prompt to the model while a call B on the
\* same conversation is suspended, the prompt holds the user message of B
\* exactly when B stored it before A stored its own; a user message of B
\* stored after that is in the history before the reply of A, and not in the
\* prompt of A.
C13_PromptAndConcurrentTurn ==
  [][ ChatStep
        => \A r \in Reqs :
             ~Idle(r)' /\ pending'[r][1].conversation_id = response'.id
               => LET f == pending'[r][1]
                  IN /\ HoldsTurnOf(chat'[1].prompt.lines, f)
                          <=> f.pos < response'.pos
                     /\ f.pos \in 1..Len(conversations[response'.id])
                     /\ conversations[response'.id][f.pos] = UserMessage(f.message)
    ]_vars

\* C13 witness: two calls are suspended on one conversation with their
\* prompts assembled: the prompt of the later call holds the user message of
\* the earlier one, the prompt of the earlier call does not hold the user
\* message of the later one, which is stored.
C13_Witness ==
  \E a, b \in Reqs :
    /\ ~Idle(a) /\ ~Idle(b)
    /\ LET fa == pending[a][1]
           fb == pending[b][1]
       IN /\ fa.conversation_id = fb.conversation_id
          /\ fa.pos < fb.pos
          /\ fa.message # fb.message
          /\ HoldsTurnOf(fb.context.lines, fa)
          /\ ~HoldsTurnOf(fa.context.lines, fb)
          /\ conversations[fa.conversation_id][fb.pos] = UserMessage(fb.message)

\* C14: the step that runs line 50 leaves {role: "user", content: M} as the
\* element it appended (the last one when the step ends at the await), a step
\* that ends with 200 leaves {role: "assistant", content: R} as the last
\* element, a get_conversation taken next returns a history whose last element
\* is that message, and no stored role is other than "user" or "assistant".
C14_RoundTrip ==
  [][ /\ response'.op = "send_message" /\ response'.status \in {0, 200, 500}
           /\ AppendedUserNow
        => LET h == GetBody(conversations', response'.id)
           IN /\ response'.pos = Len(GetBody(conversations, response'.id)) + 1
              /\ h[response'.pos] = [role |-> "user", content |-> response'.message]
              /\ response'.status \in {0, 500} => Len(h) = response'.pos
      /\ SendEnded(200)
        => LET h == GetBody(conversations', response'.id)
           IN h[Len(h)] = [role |-> "assistant", content |-> response'.body]
      /\ /\ response.op = "send_message" /\ response.status \in {0, 200}
         /\ response'.op = "get_conversation" /\ response'.id = response.id
        => /\ response'.status = 200
           /\ response'.body # <<>>
           /\ response'.body[Len(response'.body)] =
                IF response.status = 0
                  THEN [role |-> "user", content |-> response.message]
                  ELSE [role |-> "assistant", content |-> response.body]
      /\ \A id \in DOMAIN conversations' :
           \A i \in 1..Len(conversations'[id]) :
             conversations'[id][i].role \in {"user", "assistant"}
    ]_vars

\* C14 witness: a get_conversation taken while a call is suspended right
\* after its user append returns a history ending with that user message,
\* behind an assistant message stored with the role "assistant".
C14_Witness ==
  /\ response.op = "get_conversation" /\ response.status = 200
  /\ Len(response.body) = 3
  /\ response.body[2] = [role |-> "assistant", content |-> "hello"]
  /\ \E r \in Reqs :
       /\ ~Idle(r)
       /\ pending[r][1].conversation_id = response.id
       /\ pending[r][1].pos = 3
       /\ response.body[3] = [role |-> "user", content |-> pending[r][1].message]

\* The stored sequence a suspended call rendered: the messages up to its own.
SeenBy(f) == SubSeq(conversations[f.conversation_id], 1, f.pos)

\* C15: two suspended calls that rendered the same stored sequence hold the
\* same context, whatever their conversation ids and model names and whatever
\* else the store holds; and a suspended call that rendered the sequence the
\* last llm.chat call rendered, and whose file decodes to the same text, can
\* only pass, and can pass, the very same prompt.
C15_PromptPure ==
  /\ \A a, b \in Reqs :
       ~Idle(a) /\ ~Idle(b) /\ SeenBy(pending[a][1]) = SeenBy(pending[b][1])
         => pending[a][1].context = pending[b][1].context
  /\ response.op = "send_message" /\ chat # NoCall
       => \A r \in Reqs :
            /\ ~Idle(r)
            /\ SeenBy(pending[r][1]) =
                 SubSeq(conversations[response.id], 1, response.pos)
            /\ chat[1].prompt.file # <<>>
            /\ Utf8Decode(pending[r][1].file.bytes).ok
            /\ Utf8Decode(pending[r][1].file.bytes).text = chat[1].prompt.file[1][2]
            => /\ pending[r][1].context.lines = chat[1].prompt.lines
               /\ ENABLED ( /\ send_message_resume
                            /\ response'.id = pending[r][1].conversation_id
                            /\ response'.pos = pending[r][1].pos
                            /\ chat' # NoCall
                            /\ chat'[1].prompt = chat[1].prompt )
               /\ ~ ENABLED ( /\ send_message_resume
                              /\ response'.id = pending[r][1].conversation_id
                              /\ response'.pos = pending[r][1].pos
                              /\ chat' # NoCall
                              /\ chat'[1].prompt # chat[1].prompt )

\* C15 witness: a call on one conversation has passed its prompt under one
\* model while a call on the other conversation, with another model name, is
\* suspended on the same stored sequence and the same file.
C15_Witness ==
  /\ response.op = "send_message" /\ chat # NoCall /\ chat[1].prompt.file # <<>>
  /\ \E r \in Reqs :
       /\ ~Idle(r)
       /\ pending[r][1].conversation_id # response.id
       /\ SeenBy(pending[r][1]) = SubSeq(conversations[response.id], 1, response.pos)
       /\ Utf8Decode(pending[r][1].file.bytes).ok
       /\ SelectedModel(pending[r][1].model_name) # chat[1].model
       /\ pending[r][1].context.lines = chat[1].prompt.lines

\* C16: the model passed to llm.chat is the model_name of the request when
\* that is supplied and not empty, and "default" otherwise; what the step
\* stores is fixed by the request's message, the outcome and the reply text,
\* whatever model was selected.
C16_SelectedModel ==
  [][ ChatStep
        => LET id == response'.id
               mn == chat'[1].model_name
               um == [role |-> "user", content |-> response'.message]
               am == [role |-> "assistant", content |-> response'.body]
               before == IF AppendedUserNow THEN Append(conversations[id], um)
                         ELSE conversations[id]
           IN /\ mn \in ModelNames
              /\ chat'[1].model =
                   IF mn = <<>> \/ mn = <<"">> THEN "default" ELSE mn[1]
              /\ \A r \in Reqs :
                   ~Idle(r) /\ Idle(r)' => mn = pending[r][1].model_name
              /\ response'.status \in {200, 500}
              /\ conversations' =
                   [conversations EXCEPT ![id] =
                      IF response'.status = 200 THEN Append(before, am) ELSE before]
    ]_vars

\* C16 witness: a call that supplied "gpt" was answered by the model "gpt"
\* while a call that supplied the empty name is suspended.
C16_Witness ==
  /\ response.op = "send_message" /\ response.status = 200 /\ chat # NoCall
  /\ chat[1].model_name = <<"gpt">> /\ chat[1].model = "gpt"
  /\ \E r \in Reqs : ~Idle(r) /\ pending[r][1].model_name = <<"">>

\* Number of messages with the role `role` among the first n of h.
CountRole(h, n, role) == Cardinality({i \in 1..n : h[i].role = role})

\* C17: every prefix of every stored history holds at least as many user
\* messages as assistant messages; a history that is not empty starts with a
\* user message.
C17_UserBeforeAssistant ==
  \A id \in DOMAIN conversations :
    LET h == conversations[id]
    IN /\ \A n \in 0..Len(h) :
            CountRole(h, n, "assistant") <= CountRole(h, n, "user")
       /\ h # <<>> => h[1].role = "user"

\* C17 witness: two interleaved calls left two user messages followed by two
\* replies.
C17_Witness ==
  \E id \in DOMAIN conversations :
    LET h == conversations[id]
    IN /\ Len(h) = 4
       /\ h[1].role = "user" /\ h[2].role = "user"
       /\ h[3].role = "assistant" /\ h[4].role = "assistant"

\* C18: a send_message is suspended only with a file of the request in its
\* frame; a call that passes a prompt without a file block has run line 50 in
\* the same step, and when it ends with 200 that step leaves the user message
\* and the reply of the call as the last two messages, with no other call
\* moving; no later step separates two stored neighbours.
C18_FilelessAtomic ==
  [][ /\ response'.op = "send_message" /\ response'.status = 0
        => \E r \in Reqs :
             /\ Idle(r) /\ ~Idle(r)'
             /\ pending'[r][1].file \in Files
             /\ pending'[r][1].pos = response'.pos
      /\ ChatStep /\ chat'[1].prompt.file = <<>>
        => LET id == response'.id
               h  == conversations'[id]
           IN /\ AppendedUserNow
              /\ pending' = pending
              /\ Len(h) = Len(conversations[id]) + (IF response'.status = 200 THEN 2 ELSE 1)
              /\ h[response'.pos] = [role |-> "user", content |-> response'.message]
              /\ response'.status = 200
                   => /\ response'.pos + 1 = Len(h)
                      /\ h[response'.pos + 1] =
                           [role |-> "assistant", content |-> response'.body]
      /\ \A id \in DOMAIN conversations :
           \A i \in 1..Len(conversations[id]) :
             /\ i <= Len(conversations'[id])
             /\ conversations'[id][i] = conversations[id][i]
    ]_vars

\* C18 witness: a call without a file succeeded while another call was
\* suspended on the same conversation: its user message and its reply are
\* neighbours behind the user message of the suspended call.
C18_Witness ==
  /\ response.op = "send_message" /\ response.status = 200 /\ chat # NoCall
  /\ chat[1].prompt.file = <<>>
  /\ response.pos = 2 /\ Len(conversations[response.id]) = 3
  /\ \E r \in Reqs :
       /\ ~Idle(r)
       /\ pending[r][1].conversation_id = response.id
       /\ pending[r][1].pos = 1

\* The messages stored under conversation id x.
MessagesOf(store, x) == {store[x][i] : i \in 1..Len(store[x])}

\* C19: every step of a send_message on an id, whatever its outcome, leaves
\* the set of ids and the history of every other id as they are; the message
\* lines of the prompt it passes are lines of its own conversation, and no
\* message held only by another conversation has a line in the prompt.
C19_OtherConversations ==
  [][ response'.op = "send_message"
        => LET id == response'.id
           IN /\ DOMAIN conversations' = DOMAIN conversations
              /\ \A x \in DOMAIN conversations \ {id} :
                   conversations'[x] = conversations[x]
              /\ chat' # NoCall
                   => LET lines == chat'[1].prompt.lines
                      IN /\ Len(lines) <= Len(conversations'[id])
                         /\ \A i \in 1..Len(lines) :
                              lines[i] = PromptLine(conversations'[id][i])
                         /\ \A x \in DOMAIN conversations' \ {id} :
                              \A m \in MessagesOf(conversations', x)
                                         \ MessagesOf(conversations', id) :
                                \A i \in 1..Len(lines) : lines[i] # PromptLine(m)
    ]_vars

\* C19 witness: a call on one conversation has passed its prompt and has
\* failed while the other conversation holds a user message that the first
\* does not hold.
C19_Witness ==
  /\ response.op = "send_message" /\ response.status = 500 /\ chat # NoCall
  /\ \E x \in DOMAIN conversations \ {response.id} :
       /\ conversations[x] # <<>>
       /\ conversations[x][1] \notin MessagesOf(conversations, response.id)

====
